---- MODULE Spec2Model ----
(***************************************************************************)
(* Model of appbase: the execution_priority_queue (a std::priority_queue   *)
(* of queued handlers drained by execute_all / execute_highest /           *)
(* execute_high, fed by add and by the executor's dispatch/post/defer) and *)
(* the method registry with its first_success_policy.                      *)
(***************************************************************************)
EXTENDS Integers, Sequences, FiniteSets, TLC

\* ------------------------------------------------------------------------
\* Bounds of the model
\* ------------------------------------------------------------------------
MaxTasks == 3
MaxCalls == 2
MaxProviders == 3
MaxInvokes == 2
MaxHandles == 2
MaxHandleProviders == 2
MaxHandleInvokes == 1
MaxSubscribers == 2
MaxPublishes == 2

\* ------------------------------------------------------------------------
\* struct priority
\* ------------------------------------------------------------------------
high == 100
medium == 50
low == 10

\* priorities the model draws from: the named tiers and a value above high
Priorities == {low, high, high + 1}

\* the closures the model queues: one that does nothing, one that throws,
\* and one that submits a further (do-nothing) task at priority high
\* (above, equal to or below its own, depending on the submitter)
Functions == {[kind |-> "noop", prio |-> 0], [kind |-> "raise", prio |-> 0]}
             \cup {[kind |-> "submit", prio |-> p] : p \in {high}}
Noop == [kind |-> "noop", prio |-> 0]

VARIABLES
  handlers_,   \* the heap array of the std::priority_queue (front = top)
  pc,          \* "idle" | "loop" | "exec" | "pop": position in a drain call
  drain,       \* "none" | "all" | "highest" | "high": the drain call in progress / last made
  cur,         \* the handler whose execute() is in progress
  priority,    \* the local `priority` of execute_highest / execute_high
  made,        \* history: every queued_handler constructed, in order (index = id)
  via,         \* history: the verb the running action submitted through, else "none"
  runs,        \* history: how often each handler's function_ was invoked
  log,         \* history: handlers executed by the current / last drain call, in order
  atCall,      \* history: the handlers queued when the current / last drain was called
  ret,         \* "none" | "returned" | "raised": how the last drain call ended
  result,      \* return value of the last execute_highest
  atEnd,       \* history: the handlers queued when the last drain call ended
  calls        \* number of drain calls made

VARIABLES
  _signal,     \* the method's slot list, in call order (group ascending, then insertion)
  err,         \* first_success_policy::err of the policy object held by _signal
  outcome,     \* history: what the last invoke did and how it ended
  invokes,     \* number of invokes made
  handles,     \* the method::handle objects made so far (index = the object)
  released     \* history: the handles on which unregister() ran since they last took a connection

qvars == <<handlers_, pc, drain, cur, priority, made, via, runs, log, atCall,
           ret, result, atEnd, calls>>
mvars == <<_signal, err, outcome, invokes, handles, released>>

VARIABLES
  subscribers, \* the channel's slot list (the channel is the signal), in insertion order
  tokens,      \* the channel::handle_type objects returned by subscribe (index = the object)
  ios,         \* the tasks posted to *ios_ptr and not yet run
  published,   \* history: every publish call made, in order, with what it found connected
  copies,      \* history: how many copies of a payload publish has made
  ran          \* history: every fan-out task the dispatcher ran, in order

cvars == <<subscribers, tokens, ios, published, copies, ran>>
vars == <<qvars, mvars, cvars>>

NoHandler == [id |-> 0, priority_ |-> 0, function_ |-> Noop]

\* ------------------------------------------------------------------------
\* std::priority_queue<unique_ptr<queued_handler_base>, deque<...>>
\* ------------------------------------------------------------------------
\* queued_handler(p, f)
queued_handler(id, p, f) == [id |-> id, priority_ |-> p, function_ |-> f]

\* operator<(a, b): a->priority_ < b->priority_
Less_reversed(a, b) == a.priority_ > b.priority_
Less(a, b) == a.priority_ < b.priority_

\* zero-based access to the underlying deque
At(h, i) == h[i + 1]
Put(h, i, x) == [h EXCEPT ![i + 1] = x]

\* std::__push_heap: move the hole up while its parent is less than value
RECURSIVE PushHeap(_, _, _, _)
PushHeap(h, holeIndex, topIndex, value) ==
  LET parent == (holeIndex - 1) \div 2 IN
  IF holeIndex > topIndex /\ Less(At(h, parent), value)
  THEN PushHeap(Put(h, holeIndex, At(h, parent)), parent, topIndex, value)
  ELSE Put(h, holeIndex, value)

\* the loop of std::__adjust_heap: move the hole down to a leaf along the
\* larger child; yields <<heap, holeIndex, secondChild>>
RECURSIVE AdjustLoop(_, _, _, _)
AdjustLoop(h, holeIndex, secondChild, len) ==
  IF secondChild < (len - 1) \div 2
  THEN LET right == 2 * (secondChild + 1)
           sc == IF Less(At(h, right), At(h, right - 1)) THEN right - 1 ELSE right
       IN AdjustLoop(Put(h, holeIndex, At(h, sc)), sc, sc, len)
  ELSE <<h, holeIndex, secondChild>>

\* std::__adjust_heap
AdjustHeap(h, holeIndex, len, value) ==
  LET l == AdjustLoop(h, holeIndex, holeIndex, len)
      h1 == l[1]
      hole1 == l[2]
      sc1 == l[3]
      onlyLeft == (len % 2 = 0) /\ (sc1 = (len - 2) \div 2)
      sc2 == 2 * (sc1 + 1)
      h2 == IF onlyLeft THEN Put(h1, hole1, At(h1, sc2 - 1)) ELSE h1
      hole2 == IF onlyLeft THEN sc2 - 1 ELSE hole1
  IN PushHeap(h2, hole2, holeIndex, value)

\* priority_queue::push: c.push_back(x); push_heap(c.begin(), c.end())
push_back(h, x) == Append(h, x)
push(h, x) == PushHeap(Append(h, x), Len(h), 0, x)

\* priority_queue::pop: pop_heap(c.begin(), c.end()); c.pop_back()
pop(h) ==
  IF Len(h) > 1
  THEN LET last == Len(h) - 1
           value == At(h, last)
           h1 == Put(h, last, At(h, 0))
       IN SubSeq(AdjustHeap(h1, 0, last, value), 1, last)
  ELSE <<>>

\* priority_queue::top: c.front()
top(h) == h[1]

\* priority_queue::empty
empty(h) == Len(h) = 0

\* ------------------------------------------------------------------------
\* execution_priority_queue::add and the executor's three verbs
\* ------------------------------------------------------------------------
add(h, p, id, f) == push(h, queued_handler(id, p, f))

executor_dispatch_inline(h, priority_, id, f) == h
executor_dispatch(h, priority_, id, f) == add(h, priority_, id, f)

executor_post(h, priority_, id, f) == add(h, priority_, id, f)

executor_defer(h, priority_, id, f) == add(h, priority_, id, f)

Verbs == {"add", "dispatch", "post", "defer"}

Via(verb, h, p, id, f) ==
  CASE verb = "add" -> add(h, p, id, f)
    [] verb = "dispatch" -> executor_dispatch(h, p, id, f)
    [] verb = "post" -> executor_post(h, p, id, f)
    [] verb = "defer" -> executor_defer(h, p, id, f)

\* a priority below the high tier: the test `priority < priority::high`
BelowHigh_inclusive(p) == p <= high
BelowHigh_low(p) == p < low
BelowHigh(p) == p < high

\* ------------------------------------------------------------------------
\* Initial state: an empty queue, nothing running
\* ------------------------------------------------------------------------
QInit ==
  /\ handlers_ = <<>>
  /\ pc = "idle"
  /\ drain = "none"
  /\ cur = NoHandler
  /\ priority = 0
  /\ made = <<>>
  /\ via = "none"
  /\ runs = [i \in 1..MaxTasks |-> 0]
  /\ log = <<>>
  /\ atCall = <<>>
  /\ ret = "none"
  /\ result = FALSE
  /\ atEnd = <<>>
  /\ calls = 0

\* ------------------------------------------------------------------------
\* Submissions made by the host while no drain is in progress
\* ------------------------------------------------------------------------
nextId == Len(made) + 1

Submit(verb, p, f) ==
  /\ nextId <= MaxTasks
  /\ handlers_' = Via(verb, handlers_, p, nextId, f)
  /\ made' = Append(made, queued_handler(nextId, p, f))

Add ==
  /\ pc = "idle"
  /\ \E p \in Priorities, f \in Functions : Submit("add", p, f)
  /\ UNCHANGED <<via, pc, drain, cur, priority, runs, log, atCall, ret, result, atEnd, calls, mvars, cvars>>

Dispatch ==
  /\ pc = "idle"
  /\ \E p \in Priorities, f \in Functions : Submit("dispatch", p, f)
  /\ UNCHANGED <<via, pc, drain, cur, priority, runs, log, atCall, ret, result, atEnd, calls, mvars, cvars>>

Post ==
  /\ pc = "idle"
  /\ \E p \in Priorities, f \in Functions : Submit("post", p, f)
  /\ UNCHANGED <<via, pc, drain, cur, priority, runs, log, atCall, ret, result, atEnd, calls, mvars, cvars>>

Defer ==
  /\ pc = "idle"
  /\ \E p \in Priorities, f \in Functions : Submit("defer", p, f)
  /\ UNCHANGED <<via, pc, drain, cur, priority, runs, log, atCall, ret, result, atEnd, calls, mvars, cvars>>

\* ------------------------------------------------------------------------
\* The drain calls.  Each is entered from the run loop, tests its loop
\* condition, invokes top->execute(), and pops after execute() returned.
\* ------------------------------------------------------------------------
Call(kind) ==
  /\ pc = "idle"
  /\ calls < MaxCalls
  /\ calls' = calls + 1
  /\ drain' = kind
  /\ pc' = "loop"
  /\ log' = <<>>
  /\ atCall' = handlers_
  /\ ret' = "none"
  /\ result' = FALSE
  /\ atEnd' = <<>>
  /\ cur' = NoHandler
  /\ priority' = 0
  /\ via' = "none"
  /\ UNCHANGED <<handlers_, made, runs, mvars, cvars>>

\* control leaves the drain call normally, with h left in the queue
Return(value, h) ==
  /\ pc' = "idle"
  /\ ret' = "returned"
  /\ result' = value
  /\ atEnd' = h
  /\ cur' = NoHandler

\* top->execute() is entered: function_() starts running
Enter(h) ==
  /\ pc' = "exec"
  /\ cur' = h
  /\ runs' = [runs EXCEPT ![h.id] = @ + 1]
  /\ log' = Append(log, h)

execute_all_call == Call("all")

\* while (!handlers_.empty()) { handlers_.top()->execute(); ...
execute_all_loop ==
  /\ pc = "loop" /\ drain = "all"
  /\ via' = "none"
  /\ IF ~empty(handlers_)
     THEN /\ Enter(top(handlers_))
          /\ UNCHANGED <<handlers_, drain, priority, made, atCall, ret, result, atEnd, calls, mvars, cvars>>
     ELSE /\ Return(FALSE, handlers_)
          /\ UNCHANGED <<handlers_, drain, priority, made, runs, log, atCall, calls, mvars, cvars>>

\* ... handlers_.pop(); }
execute_all_pop ==
  /\ pc = "pop" /\ drain = "all"
  /\ handlers_' = pop(handlers_)
  /\ pc' = "loop"
  /\ cur' = NoHandler
  /\ via' = "none"
  /\ UNCHANGED <<drain, priority, made, runs, log, atCall, ret, result, atEnd, calls, mvars, cvars>>

execute_highest_call == Call("highest")

\* while (!handlers_.empty()) { priority = top->priority(); top->execute(); ...
execute_highest_loop ==
  /\ pc = "loop" /\ drain = "highest"
  /\ via' = "none"
  /\ IF ~empty(handlers_)
     THEN /\ priority' = top(handlers_).priority_
          /\ Enter(top(handlers_))
          /\ UNCHANGED <<handlers_, drain, made, atCall, ret, result, atEnd, calls, mvars, cvars>>
     ELSE /\ Return(~empty(handlers_), handlers_)
          /\ UNCHANGED <<handlers_, drain, priority, made, runs, log, atCall, calls, mvars, cvars>>

\* ... handlers_.pop(); if (priority < priority::high) break; }
\* return !handlers_.empty();
execute_highest_pop ==
  /\ pc = "pop" /\ drain = "highest"
  /\ handlers_' = pop(handlers_)
  /\ via' = "none"
  /\ IF BelowHigh(priority)
     THEN /\ Return(~empty(handlers_'), handlers_')
          /\ UNCHANGED <<drain, priority, made, runs, log, atCall, calls, mvars, cvars>>
     ELSE /\ pc' = "loop"
          /\ cur' = NoHandler
          /\ UNCHANGED <<drain, priority, made, runs, log, atCall, ret, result, atEnd, calls, mvars, cvars>>

execute_high_call == Call("high")

\* while (!handlers_.empty()) { priority = top->priority();
\*    if (priority < priority::high) break; top->execute(); ...
execute_high_loop ==
  /\ pc = "loop" /\ drain = "high"
  /\ via' = "none"
  /\ IF ~empty(handlers_) /\ ~BelowHigh(top(handlers_).priority_)
     THEN /\ priority' = top(handlers_).priority_
          /\ Enter(top(handlers_))
          /\ UNCHANGED <<handlers_, drain, made, atCall, ret, result, atEnd, calls, mvars, cvars>>
     ELSE /\ Return(FALSE, handlers_)
          /\ UNCHANGED <<handlers_, drain, priority, made, runs, log, atCall, calls, mvars, cvars>>

\* ... handlers_.pop(); }
execute_high_pop ==
  /\ pc = "pop" /\ drain = "high"
  /\ handlers_' = pop(handlers_)
  /\ pc' = "loop"
  /\ cur' = NoHandler
  /\ via' = "none"
  /\ UNCHANGED <<drain, priority, made, runs, log, atCall, ret, result, atEnd, calls, mvars, cvars>>

\* ------------------------------------------------------------------------
\* queued_handler::execute: function_() runs to completion
\* ------------------------------------------------------------------------
\* the closure does nothing and returns
execute_noop ==
  /\ pc = "exec" /\ cur.function_.kind = "noop"
  /\ pc' = "pop"
  /\ via' = "none"
  /\ UNCHANGED <<handlers_, drain, cur, priority, made, runs, log, atCall, ret, result,
                 atEnd, calls, mvars, cvars>>

\* the closure throws: nothing in the drain catches, the call is left
execute_raise ==
  /\ pc = "exec" /\ cur.function_.kind = "raise"
  /\ pc' = "idle"
  /\ ret' = "raised"
  /\ atEnd' = handlers_
  /\ via' = "none"
  /\ UNCHANGED <<handlers_, drain, cur, priority, made, runs, log, atCall, result, calls, mvars, cvars>>

\* the closure submits one further task through add or an executor verb
execute_submit ==
  /\ pc = "exec" /\ cur.function_.kind = "submit"
  /\ \E verb \in Verbs : Submit(verb, cur.function_.prio, Noop) /\ via' = verb
  /\ pc' = "pop"
  /\ UNCHANGED <<drain, cur, priority, runs, log, atCall, ret, result, atEnd, calls, mvars, cvars>>

\* ------------------------------------------------------------------------
\* method<FunctionSig, first_success_policy>
\* ------------------------------------------------------------------------
\* registration priorities and provider behaviours the model draws from
Groups == {0, 1}
Providers == {[kind |-> "raise", text |-> "e1"],
              [kind |-> "return", text |-> "ok"], [kind |-> "return", text |-> "ok2"]}

\* strings are sequences of pieces
Delimiter == <<"\",\"">>
NoResultPrefix == <<"No Result Available, All providers returned exceptions[">>
NoResultSuffix == <<"]">>

\* boost::current_exception_diagnostic_information() for what provider p threw
diagnostic_information(p) == <<p.text>>

NoOutcome == [status |-> "none", value |-> "", what |-> <<>>, visited |-> <<>>,
              slots |-> <<>>, errBefore |-> <<>>]

MInit ==
  /\ _signal = <<>>
  /\ err = <<>>
  /\ outcome = NoOutcome
  /\ invokes = 0
  /\ handles = <<>>
  /\ released = {}

\* _signal.connect(priority, provider): the slot goes behind every slot of its
\* group and of the lower groups, in front of the higher groups
connect_at_back(slots, id, group, provider) ==
  Append(slots, [id |-> id, group |-> group, provider |-> provider, connected |-> TRUE])
connect(slots, id, group, provider) ==
  LET before == SelectSeq(slots, LAMBDA s : s.group <= group)
      after == SelectSeq(slots, LAMBDA s : s.group > group)
  IN before \o <<[id |-> id, group |-> group, provider |-> provider, connected |-> TRUE]>>
            \o after

\* the slots the call iterators run over: the connected ones, in list order
Connected_all(slots) == slots
Connected(slots) == SelectSeq(slots, LAMBDA s : s.connected)

\* first_success_policy::operator()(first, last), started with member err = e
first_success_nocatch(slots, i, e, visited) ==
  IF i > Len(slots)
  THEN [status |-> "error", value |-> "", err |-> e, visited |-> visited,
        what |-> NoResultPrefix \o e \o NoResultSuffix]
  ELSE IF slots[i].provider.kind = "return"
  THEN [status |-> "ok", value |-> slots[i].provider.text, err |-> e,
        visited |-> Append(visited, slots[i].id), what |-> <<>>]
  ELSE [status |-> "error", value |-> "", err |-> e,
        visited |-> Append(visited, slots[i].id),
        what |-> diagnostic_information(slots[i].provider)]

RECURSIVE first_success(_, _, _, _)
first_success(slots, i, e, visited) ==
  IF i > Len(slots)
  THEN [status |-> "error", value |-> "", err |-> e, visited |-> visited,
        what |-> NoResultPrefix \o e \o NoResultSuffix]
  ELSE IF slots[i].provider.kind = "return"
  THEN [status |-> "ok", value |-> slots[i].provider.text, err |-> e,
        visited |-> Append(visited, slots[i].id), what |-> <<>>]
  ELSE first_success(slots, i + 1,
                     (IF e # <<>> THEN e \o Delimiter ELSE e)
                        \o diagnostic_information(slots[i].provider),
                     Append(visited, slots[i].id))

\* ------------------------------------------------------------------------
\* method::handle: a move-only owner of a boost::signals2::connection
\* ------------------------------------------------------------------------
\* handle(handle_type&& _handle): a live handle whose connection refers to
\* slot conn; conn = 0 is the empty connection of handle() and of a
\* moved-from handle
handle(conn) == [state |-> "live", conn |-> conn]

\* _handle.connected(): the connection refers to a slot that is connected
connected(slots, conn) ==
  conn # 0 /\ \E i \in DOMAIN slots : slots[i].id = conn /\ slots[i].connected

\* _handle.disconnect(): the slot is disconnected for good, the others untouched
disconnect(slots, conn) ==
  [i \in DOMAIN slots |->
     IF slots[i].id = conn THEN [slots[i] EXCEPT !.connected = FALSE] ELSE slots[i]]

\* handle::unregister(): if (_handle.connected()) _handle.disconnect();
handle_unregister_all(slots, h) ==
  [i \in DOMAIN slots |-> [slots[i] EXCEPT !.connected = FALSE]]
handle_unregister(slots, h) ==
  IF connected(slots, h.conn) THEN disconnect(slots, h.conn) ELSE slots

\* handle(handle&&) = default: the new handle takes the connection, the
\* source is left with the empty connection; yields <<new handle, source>>
move_copying(src) == <<handle(src.conn), src>>
move(src) == <<handle(src.conn), [src EXCEPT !.conn = 0]>>

Live(hs) == {h \in DOMAIN hs : hs[h].state = "live"}

\* provider behaviour and priority of the handle scenarios: providers that
\* raise, so that an invoke visits every connected provider
HProviders == {[kind |-> "raise", text |-> "e1"]}
HGroups == {0}

\* method::register_provider(provider, priority): connects the provider and
\* returns the handle that owns the connection
register_provider(P, G, n, m) ==
  /\ Len(_signal) < n
  /\ Len(handles) < m
  /\ \E provider \in P, group \in G :
        _signal' = connect(_signal, Len(_signal) + 1, group, provider)
  /\ handles' = Append(handles, handle(Len(_signal) + 1))
  /\ UNCHANGED <<err, outcome, invokes, released, qvars, cvars>>

\* handle::unregister on a live handle
unregister ==
  /\ \E h \in Live(handles) :
        /\ _signal' = handle_unregister(_signal, handles[h])
        /\ released' = released \cup {h}
  /\ UNCHANGED <<err, outcome, invokes, handles, qvars, cvars>>

\* handle::~handle: unregister(), then the object is gone
destroy ==
  /\ \E h \in Live(handles) :
        /\ _signal' = handle_unregister(_signal, handles[h])
        /\ handles' = [handles EXCEPT ![h].state = "dead"]
  /\ UNCHANGED <<err, outcome, invokes, released, qvars, cvars>>

\* handle h2(std::move(h1)): a new handle object is move-constructed from h1
move_construct ==
  /\ Len(handles) < MaxHandles
  /\ \E h1 \in Live(handles) :
        LET m == move(handles[h1]) IN
        /\ handles' = Append([handles EXCEPT ![h1] = m[2]], m[1])
  /\ UNCHANGED <<_signal, err, outcome, invokes, released, qvars, cvars>>

\* h2 = std::move(h1): the defaulted move assignment replaces h2's connection
\* by h1's; the connection h2 held is dropped without being disconnected
move_assign ==
  /\ \E h1, h2 \in Live(handles) :
        /\ h1 # h2
        /\ LET m == move(handles[h1]) IN
             handles' = [handles EXCEPT ![h2] = [@ EXCEPT !.conn = m[1].conn], ![h1] = m[2]]
        /\ released' = released \ {h2}
  /\ UNCHANGED <<_signal, err, outcome, invokes, qvars, cvars>>

\* method::operator(): _signal(args...) runs the policy object the signal holds
invoke(n) ==
  /\ invokes < n
  /\ invokes' = invokes + 1
  /\ LET r == first_success(Connected(_signal), 1, err, <<>>) IN
       /\ err' = r.err
       /\ outcome' = [status |-> r.status, value |-> r.value, what |-> r.what,
                      visited |-> r.visited, slots |-> Connected(_signal),
                      errBefore |-> err]
  /\ UNCHANGED <<_signal, handles, released, qvars, cvars>>

MNext == register_provider(Providers, Groups, MaxProviders, MaxProviders) \/ unregister \/ invoke(MaxInvokes)

HNext ==
  \/ register_provider(HProviders, HGroups, MaxHandleProviders, MaxHandles) \/ unregister \/ destroy
  \/ move_construct \/ move_assign \/ invoke(MaxHandleInvokes)

\* ------------------------------------------------------------------------
\* channel: a signal<void(const Data&), drop_exceptions> plus a dispatcher
\* ------------------------------------------------------------------------
\* the callbacks passed to subscribe: one that returns, one that raises
Callbacks == {"return", "raise"}
\* the payload passed to the k-th publish: a value no other publish passes
Payload(k) == k

\* drop_exceptions::operator(): every slot is called; an exception a slot
\* raises is caught and dropped and the loop moves on to the next slot
drop_exceptions_propagate(slots, first, called, dropped) ==
  LET raising == {i \in first..Len(slots) : slots[i].kind = "raise"}
      last == IF raising = {} THEN Len(slots)
              ELSE CHOOSE i \in raising : \A j \in raising : i <= j
  IN [called |-> called \o [i \in 1..(last - first + 1) |-> slots[first + i - 1].id],
      dropped |-> dropped, escaped |-> raising # {}]

RECURSIVE drop_exceptions(_, _, _, _)
drop_exceptions(slots, first, called, dropped) ==
  IF first > Len(slots)
  THEN [called |-> called, dropped |-> dropped, escaped |-> FALSE]
  ELSE IF slots[first].kind = "raise"
  THEN drop_exceptions(slots, first + 1, Append(called, slots[first].id), dropped + 1)
  ELSE drop_exceptions(slots, first + 1, Append(called, slots[first].id), dropped)

\* the subscribers whose connection is connected (connection::connected())
ConnectedIds(slots) ==
  {slots[i].id : i \in {j \in DOMAIN slots : slots[j].connected}}

\* signal::num_slots(): the number of connected slots
num_slots(slots) == Len(Connected(slots))

\* channel::has_subscribers
has_subscribers_always(slots) == TRUE
has_subscribers_ever(slots) == Len(slots) > 0
has_subscribers(slots) == num_slots(slots) > 0

\* the lambda [this, data] of publish: the fan-out task of publish call pub,
\* holding its own copy of the payload
fanout(pub, data) == [pub |-> pub, data |-> data]

\* io_service::post: the task is queued for a later run, never run inline
ios_post_twice(q, task) == Append(Append(q, task), task)
ios_post(q, task) == Append(q, task)

\* channel::unsubscribe(handle): handle.disconnect()
channel_unsubscribe(slots, h) == disconnect(slots, h.conn)

CInit ==
  /\ subscribers = <<>>
  /\ tokens = <<>>
  /\ ios = <<>>
  /\ published = <<>>
  /\ copies = 0
  /\ ran = <<>>

\* channel::subscribe(cb): connect(cb) appends the slot; the connection is
\* returned as a plain boost::signals2::connection
subscribe ==
  /\ Len(subscribers) < MaxSubscribers
  /\ \E cb \in Callbacks :
        subscribers' = Append(subscribers,
                              [id |-> Len(subscribers) + 1, kind |-> cb, connected |-> TRUE])
  /\ tokens' = Append(tokens, handle(Len(subscribers) + 1))
  /\ UNCHANGED <<ios, published, copies, ran, qvars, mvars>>

\* channel::unsubscribe on a handle_type the caller still has
unsubscribe ==
  /\ \E h \in Live(tokens) :
        subscribers' = channel_unsubscribe(subscribers, tokens[h])
  /\ UNCHANGED <<tokens, ios, published, copies, ran, qvars, mvars>>

\* the caller's handle_type object is destroyed: ~connection() releases its
\* reference to the slot and does not disconnect it
drop ==
  /\ \E h \in Live(tokens) :
        tokens' = [tokens EXCEPT ![h].state = "dead"]
  /\ UNCHANGED <<subscribers, ios, published, copies, ran, qvars, mvars>>

\* channel::publish(data)
publish ==
  /\ Len(published) < MaxPublishes
  /\ LET data == Payload(Len(published) + 1) IN
        /\ IF has_subscribers(subscribers)
           THEN /\ ios' = ios_post(ios, fanout(Len(published) + 1, data))
                /\ copies' = copies + 1
           ELSE UNCHANGED <<ios, copies>>
        /\ published' = Append(published,
                               [data |-> data, slots |-> num_slots(subscribers),
                                connected |-> ConnectedIds(subscribers)])
  /\ UNCHANGED <<subscribers, tokens, ran, qvars, mvars>>

\* the dispatcher runs a posted task: (*this)(data) calls the combiner over
\* the slots connected now
run ==
  /\ \E i \in DOMAIN ios :
        LET r == drop_exceptions(Connected(subscribers), 1, <<>>, 0) IN
        /\ ios' = SubSeq(ios, 1, i - 1) \o SubSeq(ios, i + 1, Len(ios))
        /\ ran' = Append(ran, [pub |-> ios[i].pub, data |-> ios[i].data,
                               slots |-> Connected(subscribers),
                               connected |-> ConnectedIds(subscribers),
                               called |-> r.called, dropped |-> r.dropped,
                               escaped |-> r.escaped])
  /\ UNCHANGED <<subscribers, tokens, published, copies, qvars, mvars>>

CNext == subscribe \/ unsubscribe \/ publish \/ run

\* the channel with callers that also let their handle_type objects go
TNext == CNext \/ drop

Init == QInit /\ MInit /\ CInit

QNext ==
  \/ Add \/ Dispatch \/ Post \/ Defer
  \/ execute_all_call \/ execute_all_loop \/ execute_all_pop
  \/ execute_highest_call \/ execute_highest_loop \/ execute_highest_pop
  \/ execute_high_call \/ execute_high_loop \/ execute_high_pop
  \/ execute_noop \/ execute_raise \/ execute_submit

Spec == Init /\ [][QNext]_vars

MethodSpec == Init /\ [][MNext]_vars

HandleSpec == Init /\ [][HNext]_vars

ChannelSpec == Init /\ [][CNext]_vars

TokenSpec == Init /\ [][TNext]_vars

\* ------------------------------------------------------------------------
\* Helpers for the properties
\* ------------------------------------------------------------------------
Range(q) == {q[i] : i \in DOMAIN q}

\* the drain call made last has ended by returning / by an exception
Returned(kind) == pc = "idle" /\ drain = kind /\ ret = "returned"
Raised == pc = "idle" /\ ret = "raised"

\* no handler executed by the drain call submitted a task
NoSubmit(l) == \A i \in DOMAIN l : l[i].function_.kind # "submit"

\* how often handler h occurs in the sequence l
Count(l, h) == Cardinality({i \in DOMAIN l : l[i] = h})

NonIncreasing(l) ==
  \A i, j \in DOMAIN l : i < j => l[i].priority_ >= l[j].priority_

Highs(q) == {h \in Range(q) : h.priority_ >= high}
Lows(q) == {h \in Range(q) : h.priority_ < high}

\* ------------------------------------------------------------------------
\* C1: after adds, one execute_all whose tasks add nothing runs the tasks in
\* non-increasing priority order, runs every queued task exactly once and
\* returns with the queue empty.
\* ------------------------------------------------------------------------
C1_ExecuteAllOrdered ==
  (Returned("all") /\ NoSubmit(log)) =>
     /\ NonIncreasing(log)
     /\ \A h \in Range(atCall) : Count(log, h) = 1
     /\ Range(log) = Range(atCall)
     /\ calls = 1 => \A h \in Range(atCall) : runs[h.id] = 1
     /\ atEnd = <<>>

\* three tasks, added out of priority order and two of them tied, were drained
C1_Witness ==
  /\ Returned("all") /\ NoSubmit(log) /\ calls = 1
  /\ Len(log) = 3
  /\ log[1].priority_ > log[3].priority_
  /\ \E i, j \in DOMAIN log : i # j /\ log[i].priority_ = log[j].priority_
  /\ log[1].id > log[3].id

\* ------------------------------------------------------------------------
\* C2: every task added (also by a running task, at any relative priority)
\* has its action run exactly once: no action runs twice, and no task leaves
\* the queue without having run.  Stated for tasks that do not throw.
\* ------------------------------------------------------------------------
C2_RunExactlyOnce ==
  (\A i \in DOMAIN made : made[i].function_.kind # "raise") =>
     \A i \in DOMAIN made :
        /\ runs[i] <= 1
        /\ made[i] \notin Range(handlers_) => runs[i] = 1

\* ------------------------------------------------------------------------
\* C3: drains are pop-then-execute: while a task's action runs the task is
\* no longer queued, and a task added by an action running under execute_all
\* is run by that same execute_all call before it returns.
\* ------------------------------------------------------------------------
C3_PopThenExecute ==
  /\ pc = "exec" => cur \notin Range(handlers_)
  /\ Returned("all") =>
        \A i \in DOMAIN made :
           (made[i] \notin Range(atCall) /\ runs[i] = 0) => made[i] \in Range(atEnd)

\* ------------------------------------------------------------------------
\* C4: on a queue whose tasks add nothing, execute_highest runs every task
\* of priority >= high, then exactly one task below high if there is one,
\* then stops; it returns true iff the queue is non-empty on return.
\* ------------------------------------------------------------------------
C4_ExecuteHighest ==
  (Returned("highest") /\ NoSubmit(log)) =>
     LET n == Cardinality(Highs(atCall)) IN
     /\ Len(log) = n + (IF Lows(atCall) # {} THEN 1 ELSE 0)
     /\ \A h \in Highs(atCall) : \E i \in 1..n : log[i] = h
     /\ Len(log) > n => log[n + 1] \in Lows(atCall)
     /\ Range(atEnd) = Range(atCall) \ Range(log)
     /\ Len(atEnd) = Len(atCall) - Len(log)
     /\ result = (atEnd # <<>>)
     /\ Lows(atCall) = {} => (result = FALSE /\ atEnd = <<>>)
     /\ (n = 1 /\ Cardinality(Lows(atCall)) = 1) => (Len(log) = 2 /\ result = FALSE)
     /\ (n = 1 /\ Cardinality(Lows(atCall)) = 2) =>
           (Len(log) = 2 /\ result = TRUE /\ Len(atEnd) = 1 /\ Range(atEnd) \subseteq Lows(atCall))

\* one high and two low tasks: the high one and one low one ran, one is left
C4_Witness ==
  /\ Returned("highest") /\ NoSubmit(log)
  /\ Cardinality(Highs(atCall)) = 1 /\ Cardinality(Lows(atCall)) = 2
  /\ Len(log) = 2 /\ result = TRUE /\ Len(atEnd) = 1

\* ------------------------------------------------------------------------
\* C5: execute_high never runs a task below high and leaves every queued
\* task below high in the queue; a task of priority exactly high is run.
\* ------------------------------------------------------------------------
C5_ExecuteHighOnlyHigh ==
  drain = "high" =>
     /\ \A i \in DOMAIN log : log[i].priority_ >= high
     /\ pc # "idle" => Lows(atCall) \subseteq Range(handlers_)
     /\ pc = "idle" => Lows(atCall) \subseteq Range(atEnd)
     /\ Returned("high") =>
           \A h \in Range(atCall) : h.priority_ = high => h \in Range(log)

\* execute_high ran a task of priority exactly high and left a low one queued
C5_Witness ==
  /\ Returned("high")
  /\ \E i \in DOMAIN log : log[i].priority_ = high
  /\ Lows(atCall) # {} /\ Lows(atCall) \subseteq Range(atEnd)

C7_RaisingTaskLost ==
  /\ Raised =>
        /\ cur \notin Range(atEnd)
        /\ \A h \in Range(atCall) : runs[h.id] = 0 => h \in Range(atEnd)
  /\ \A i \in DOMAIN made : made[i].function_.kind = "raise" => runs[i] <= 1

\* ------------------------------------------------------------------------
\* C8: dispatch, post and defer behave identically: each adds exactly one
\* task at the executor's priority and runs nothing inline, also when called
\* from a running task; actions run only in a drain's step.  Every step that
\* constructs a handler is a submission, by the host (Add, Dispatch, Post,
\* Defer) or by the running action (through any of the four verbs).
\* ------------------------------------------------------------------------
C8_VerbsOnlyEnqueue ==
  [][ /\ made' # made =>
            LET new == made'[Len(made')] IN
            /\ Len(made') = Len(made) + 1
            /\ Len(handlers_') = Len(handlers_) + 1
            /\ Range(handlers_') = Range(handlers_) \cup {new}
            /\ new \notin Range(handlers_)
            /\ handlers_' = executor_dispatch(handlers_, new.priority_, new.id, new.function_)
            /\ handlers_' = executor_post(handlers_, new.priority_, new.id, new.function_)
            /\ handlers_' = executor_defer(handlers_, new.priority_, new.id, new.function_)
            /\ runs' = runs
            /\ log' = log
            /\ pc' \in {"idle", "pop"}
      /\ runs' # runs => (pc = "loop" /\ pc' = "exec")
    ]_vars

\* a running task submitted through dispatch; the new task is queued, not run
C8_Witness ==
  /\ pc = "pop" /\ via = "dispatch" /\ cur.function_.kind = "submit"
  /\ made[Len(made)] \in Range(handlers_)
  /\ made[Len(made)].priority_ = cur.function_.prio
  /\ runs[Len(made)] = 0

\* ------------------------------------------------------------------------
\* Helpers for the method properties
\* ------------------------------------------------------------------------
\* index of the first slot whose provider completes without raising, else 0
FirstReturning(slots) ==
  IF \E i \in DOMAIN slots : slots[i].provider.kind = "return"
  THEN CHOOSE i \in DOMAIN slots :
          /\ slots[i].provider.kind = "return"
          /\ \A j \in 1..(i - 1) : slots[j].provider.kind = "raise"
  ELSE 0

\* the diagnostics of slots[1..n], joined by the delimiter
RECURSIVE Joined(_, _)
Joined(slots, n) ==
  IF n = 0 THEN <<>>
  ELSE IF n = 1 THEN diagnostic_information(slots[1].provider)
  ELSE Joined(slots, n - 1) \o Delimiter \o diagnostic_information(slots[n].provider)

\* ------------------------------------------------------------------------
\* C9: under first-success, invoke returns the result of the first provider
\* in visitation order that does not raise; later providers are not invoked
\* and the diagnostics of the earlier, raising providers are not surfaced.
\* ------------------------------------------------------------------------
C9_FirstSuccess ==
  (outcome.status # "none" /\ FirstReturning(outcome.slots) # 0) =>
     LET k == FirstReturning(outcome.slots) IN
     /\ outcome.status = "ok"
     /\ outcome.value = outcome.slots[k].provider.text
     /\ outcome.visited = [i \in 1..k |-> outcome.slots[i].id]
     /\ outcome.what = <<>>

\* P1 raised, P2 returned, P3 (which would return something else) was not called
C9_Witness ==
  /\ outcome.status = "ok"
  /\ Len(outcome.slots) = 3
  /\ Len(outcome.visited) = 2
  /\ outcome.slots[1].provider.kind = "raise"
  /\ outcome.slots[3].provider.kind = "return"
  /\ outcome.slots[3].provider.text # outcome.value

\* ------------------------------------------------------------------------
\* C10: when every connected provider raises, invoke visits each provider
\* exactly once and fails with one aggregate error whose message is the
\* providers' diagnostics in visitation order, separated by the delimiter.
\* ------------------------------------------------------------------------
C10_AggregateOfThisInvoke ==
  (outcome.status # "none" /\ outcome.slots # <<>> /\ FirstReturning(outcome.slots) = 0) =>
     /\ outcome.status = "error"
     /\ outcome.visited = [i \in DOMAIN outcome.slots |-> outcome.slots[i].id]
     /\ outcome.what = NoResultPrefix \o Joined(outcome.slots, Len(outcome.slots))
                          \o NoResultSuffix

\* ------------------------------------------------------------------------
\* C11: invoking a first-success method that has no connected provider
\* raises the aggregate error with an empty diagnostic list, in every state
\* of the method (also after invokes in which providers raised, and after
\* every provider was unregistered).
\* ------------------------------------------------------------------------
C11_EmptyAggregate ==
  (outcome.status # "none" /\ outcome.slots = <<>>) =>
     /\ outcome.status = "error"
     /\ outcome.visited = <<>>
     /\ outcome.what = NoResultPrefix \o NoResultSuffix

\* ------------------------------------------------------------------------
\* C12: invoke visits the connected providers in ascending order of the
\* priority given at register_provider, whatever the registration order.
\* ------------------------------------------------------------------------
C12_AscendingPriority ==
  /\ \A i, j \in DOMAIN _signal : i < j => _signal[i].group <= _signal[j].group
  /\ outcome.status # "none" =>
        /\ Len(outcome.visited) <= Len(outcome.slots)
        /\ \A i \in DOMAIN outcome.visited : outcome.visited[i] = outcome.slots[i].id
        /\ \A i, j \in DOMAIN outcome.visited :
              i < j => outcome.slots[i].group <= outcome.slots[j].group

\* a provider registered later at a lower priority value was visited first
C12_Witness ==
  /\ outcome.status # "none"
  /\ Len(outcome.visited) >= 2
  /\ outcome.visited[1] > outcome.visited[2]
  /\ outcome.slots[1].group < outcome.slots[2].group

\* ------------------------------------------------------------------------
\* Helpers for the handle properties
\* ------------------------------------------------------------------------
\* handle h owns a connection that is connected
HConnected(slots, hs, h) == connected(slots, hs[h].conn)

Dead(hs) == DOMAIN hs \ Live(hs)

\* the step runs unregister() on h for the first time since h took its
\* connection, or destroys h
Releases(h) ==
  \/ h \in released' \ released
  \/ handles[h].state = "live" /\ handles'[h].state = "dead"

Ids(l) == {l[i] : i \in DOMAIN l}

\* ------------------------------------------------------------------------
\* C16 (as stated): a handle goes from connected to disconnected and never
\* back: once a handle was unregistered or destroyed its entry is
\* disconnected, is visited by no later invoke, and no step leaves that
\* handle connected.
\* ------------------------------------------------------------------------
C16_NeverConnectedAgain ==
  [][ /\ \A h \in released \cup Dead(handles) : ~HConnected(_signal', handles', h)
      /\ \A h \in DOMAIN handles : Releases(h) => ~connected(_signal', handles[h].conn)
      /\ \A id \in 1..Len(_signal) : ~connected(_signal, id) => ~connected(_signal', id)
      /\ invokes' # invokes =>
            \A id \in Ids(outcome'.visited) : connected(_signal, id)
    ]_vars

\* ------------------------------------------------------------------------
\* C16 (amended): unregistering or destroying a handle disconnects its
\* entry; a disconnected entry is never connected again and is visited by no
\* later invoke; a destroyed handle is never connected again, and an
\* unregistered handle becomes connected again only by a move assignment
\* onto it from a connected handle, whose entry it then owns.
\* ------------------------------------------------------------------------
C16_DisconnectedForGood ==
  [][ /\ \A h \in Dead(handles) : ~HConnected(_signal', handles', h)
      /\ \A h \in released :
            HConnected(_signal', handles', h) =>
               \E h1 \in Live(handles) \ {h} :
                  /\ HConnected(_signal, handles, h1)
                  /\ handles'[h].conn = handles[h1].conn
                  /\ handles'[h1].conn = 0
                  /\ _signal' = _signal
      /\ \A h \in DOMAIN handles : Releases(h) => ~connected(_signal', handles[h].conn)
      /\ \A id \in 1..Len(_signal) : ~connected(_signal, id) => ~connected(_signal', id)
      /\ invokes' # invokes =>
            \A id \in Ids(outcome'.visited) : connected(_signal, id)
    ]_vars

\* an entry was unregistered, and a later invoke visited a provider
\* registered after it without visiting it
C16_Witness ==
  /\ outcome.status # "none"
  /\ \E h \in released :
        /\ handles[h].conn # 0
        /\ ~HConnected(_signal, handles, h)
        /\ handles[h].conn \notin Ids(outcome.visited)
        /\ \E id \in Ids(outcome.visited) : id > handles[h].conn

\* ------------------------------------------------------------------------
\* C17: unregistration is idempotent: a second unregister() on a handle, or
\* destroying the handle after unregister(), leaves the entry list as the
\* first unregister() left it; an unregister or destroy changes no entry
\* but the handle's own and keeps the order of the entries.
\* ------------------------------------------------------------------------
C17_UnregisterIdempotent ==
  [][ \A h \in Live(handles) :
         /\ h \in released => handle_unregister(_signal, handles[h]) = _signal
         /\ (h \in released /\ handles'[h].state = "dead") => _signal' = _signal
         /\ handle_unregister(handle_unregister(_signal, handles[h]), handles[h])
               = handle_unregister(_signal, handles[h])
         /\ Releases(h) =>
               /\ DOMAIN _signal' = DOMAIN _signal
               /\ \A i \in DOMAIN _signal :
                     /\ _signal'[i].id = _signal[i].id
                     /\ _signal[i].id # handles[h].conn => _signal'[i] = _signal[i]
    ]_vars

\* a handle was unregistered and then destroyed while another entry stayed
\* connected
C17_Witness ==
  \E h \in released \cap Dead(handles) :
     /\ handles[h].conn # 0
     /\ ~HConnected(_signal, handles, h)
     /\ \E i \in DOMAIN _signal : _signal[i].connected

\* ------------------------------------------------------------------------
\* C18: a moved-from handle is inert: unregistering or destroying it changes
\* no entry; the move h2 = move(h1) changes no entry and leaves the connection
\* with h2 alone; an entry is disconnected only by unregistering or
\* destroying the handle that holds its connection.
\* ------------------------------------------------------------------------
C18_MovedFromInert ==
  [][ /\ \A h \in Live(handles) :
            handles[h].conn = 0 =>
               /\ handle_unregister(_signal, handles[h]) = _signal
               /\ Releases(h) => _signal' = _signal
      /\ \A h1 \in Live(handles) : \A h2 \in Live(handles') \ {h1} :
            (/\ handles[h1].conn # 0
             /\ handles'[h1].conn = 0
             /\ handles'[h2].conn = handles[h1].conn) =>
               /\ _signal' = _signal
               /\ \A h \in Live(handles') \ {h2} : handles'[h].conn # handles[h1].conn
      /\ \A id \in 1..Len(_signal) :
            (connected(_signal, id) /\ ~connected(_signal', id)) =>
               \E h \in Live(handles) : handles[h].conn = id /\ Releases(h)
      /\ \A h, k \in Live(handles) :
            (h # k /\ handles[h].conn # 0) => handles[h].conn # handles[k].conn
    ]_vars

\* the only entry is still connected, held by a live handle, after the
\* handle it was moved from was destroyed
C18_Witness ==
  /\ Len(_signal) = 1
  /\ \E h1 \in Dead(handles) : handles[h1].conn = 0
  /\ \E h2 \in Live(handles) : HConnected(_signal, handles, h2)

\* ------------------------------------------------------------------------
\* C20: every connected entry is owned by exactly one live handle.
\* ------------------------------------------------------------------------
C20_OneOwnerPerEntry ==
  \A i \in DOMAIN _signal :
     _signal[i].connected =>
        Cardinality({h \in Live(handles) : handles[h].conn = _signal[i].id}) = 1

\* ------------------------------------------------------------------------
\* Helpers for the channel properties
\* ------------------------------------------------------------------------
Publishes == Len(published') = Len(published) + 1

\* the fan-out tasks of publish call p: those still posted and those run
Tasks(q, p) == {i \in DOMAIN q : q[i].pub = p}

\* ------------------------------------------------------------------------
\* C13: a publish on a channel with no connected subscriber is a no-op:
\* nothing is posted, the payload is not copied, no fan-out task of that
\* publish ever exists (so no subscriber, also one subscribing later, is
\* ever called with that payload) and no subscriber is called.
\* ------------------------------------------------------------------------
C13_PublishWithoutSubscribers ==
  [][ /\ (Publishes /\ Connected(subscribers) = <<>>) =>
            /\ ios' = ios
            /\ copies' = copies
            /\ ran' = ran
            /\ subscribers' = subscribers
      /\ \A p \in DOMAIN published' :
            published'[p].slots = 0 => (Tasks(ios', p) = {} /\ Tasks(ran', p) = {})
    ]_vars

\* a publish found no subscriber; a subscriber that came later was called
\* for a later publish and never for that one
C13_Witness ==
  \E p \in DOMAIN published :
     /\ published[p].slots = 0
     /\ \E r \in DOMAIN ran : ran[r].pub > p /\ ran[r].called # <<>>

\* ------------------------------------------------------------------------
\* C14: a publish on a channel with a connected subscriber calls no
\* subscriber: it posts exactly one fan-out task holding a copy of the
\* payload; subscribers are called only in the step in which the dispatcher
\* runs a posted task, and with the payload that task holds.
\* ------------------------------------------------------------------------
C14_PublishPostsOneTask ==
  [][ /\ (Publishes /\ Connected(subscribers) # <<>>) =>
            LET p == Len(published') IN
            /\ ran' = ran
            /\ ios' = Append(ios, [pub |-> p, data |-> published'[p].data])
            /\ copies' = copies + 1
      /\ ran' # ran =>
            /\ ~Publishes
            /\ \E i \in DOMAIN ios :
                  /\ ios' = SubSeq(ios, 1, i - 1) \o SubSeq(ios, i + 1, Len(ios))
                  /\ Len(ran') = Len(ran) + 1
                  /\ SubSeq(ran', 1, Len(ran)) = ran
                  /\ ran'[Len(ran')].pub = ios[i].pub
                  /\ ran'[Len(ran')].data = published[ios[i].pub].data
      /\ \A p \in DOMAIN published' :
            published'[p].slots > 0 =>
               Cardinality(Tasks(ios', p)) + Cardinality(Tasks(ran', p)) = 1
    ]_vars

\* publish has returned with its task posted and no subscriber called yet
C14_Witness ==
  /\ Connected(subscribers) # <<>>
  /\ Len(published) = 1
  /\ Len(ios) = 1 /\ ios[1].data = published[1].data
  /\ copies = 1
  /\ ran = <<>>

\* ------------------------------------------------------------------------
\* C15: a fan-out task that runs with N connected subscribers calls each of
\* them exactly once, in order, with the payload of its publish, also when
\* some of them raise; what they
\* raise is dropped and nothing escapes to the dispatcher.
\* ------------------------------------------------------------------------
C15_FanOutCallsAll ==
  \A r \in DOMAIN ran :
     /\ ran[r].called = [i \in DOMAIN ran[r].slots |-> ran[r].slots[i].id]
     /\ ran[r].data = published[ran[r].pub].data
     /\ ran[r].dropped =
           Cardinality({i \in DOMAIN ran[r].slots : ran[r].slots[i].kind = "raise"})
     /\ ~ran[r].escaped

\* two subscribers, the first of which raised, were both called
C15_Witness ==
  \E r \in DOMAIN ran :
     /\ Len(ran[r].slots) = 2
     /\ ran[r].slots[1].kind = "raise"
     /\ Len(ran[r].called) = 2
     /\ ran[r].dropped >= 1

\* ------------------------------------------------------------------------
\* C19: the handle returned by subscribe disconnects its subscriber when it
\* is destroyed, so a fan-out that runs afterwards does not call it.
\* ------------------------------------------------------------------------
C19_ChannelHandleRAII ==
  \A h \in Dead(tokens) : ~connected(subscribers, tokens[h].conn)

\* ------------------------------------------------------------------------
\* Helpers for the properties of a fan-out that follows an unsubscribe
\* ------------------------------------------------------------------------
\* the subscribers connected at the publish of run r and no longer connected
\* when its task ran
Unsubscribed(r) == published[ran[r].pub].connected \ ran[r].connected

\* no subscriber is called twice by one run
CalledOnce(r) ==
  \A i, j \in DOMAIN ran[r].called :
     ran[r].called[i] = ran[r].called[j] => i = j

\* ------------------------------------------------------------------------
\* C21 (as stated): the fan-out task scheduled by a publish still calls a
\* subscriber that was connected at the publish and unsubscribed before the
\* task ran; no subscriber is called more than once for one publish.
\* ------------------------------------------------------------------------
C21_UnsubscribedStillCalled ==
  \A r \in DOMAIN ran :
     /\ \A id \in Unsubscribed(r) : id \in Ids(ran[r].called)
     /\ CalledOnce(r)
     /\ Cardinality(Tasks(ran, ran[r].pub)) = 1

\* ------------------------------------------------------------------------
\* C21 (amended): an unsubscribe does not retract the scheduled task, which
\* still runs, but the task calls no subscriber that was unsubscribed before
\* it ran; no subscriber is called more than once for one publish.
\* ------------------------------------------------------------------------
C21_UnsubscribedNotCalled ==
  /\ \A r \in DOMAIN ran :
        /\ \A id \in Unsubscribed(r) : id \notin Ids(ran[r].called)
        /\ CalledOnce(r)
        /\ Cardinality(Tasks(ran, ran[r].pub)) = 1
  /\ \A p \in DOMAIN published :
        published[p].connected # {} => Tasks(ios, p) \cup Tasks(ran, p) # {}

\* S and another subscriber were connected at the publish, S unsubscribed,
\* then the task ran and called the other one only
C21_Witness ==
  \E r \in DOMAIN ran :
     /\ Unsubscribed(r) # {}
     /\ ran[r].called # <<>>
     /\ Ids(ran[r].called) \subseteq published[ran[r].pub].connected

\* ------------------------------------------------------------------------
\* C22: after any subscribes and unsubscribes has_subscribers is true iff a
\* subscriber is connected now, and a publish has posted a task iff a
\* subscriber was connected at the time of that publish.
\* ------------------------------------------------------------------------
C22_HasSubscribers ==
  /\ has_subscribers(subscribers) <=> (\E i \in DOMAIN subscribers : subscribers[i].connected)
  /\ \A p \in DOMAIN published :
        (Tasks(ios, p) \cup Tasks(ran, p) # {}) <=> published[p].connected # {}
  /\ copies = Cardinality({p \in DOMAIN published : published[p].connected # {}})

\* every subscriber has unsubscribed: has_subscribers is false again, and of
\* two publishes the one made before posted a task, the one made after did not
C22_Witness ==
  /\ subscribers # <<>>
  /\ ~has_subscribers(subscribers)
  /\ \E p1, p2 \in DOMAIN published :
        /\ p1 < p2
        /\ published[p1].connected # {}
        /\ Tasks(ios, p1) \cup Tasks(ran, p1) # {}
        /\ published[p2].connected = {}
        /\ Tasks(ios, p2) \cup Tasks(ran, p2) = {}

\* ------------------------------------------------------------------------
\* C23: the policy's accumulated error text is empty at the start of every
\* invoke, so the aggregate error of an invoke carries the diagnostics of
\* the providers that raised in that invoke and nothing from earlier ones.
\* ------------------------------------------------------------------------
C23_ErrEmptyAtInvoke ==
  outcome.status # "none" =>
     /\ outcome.errBefore = <<>>
     /\ outcome.status = "error" =>
           outcome.what = NoResultPrefix
                             \o Joined(outcome.slots, Len(outcome.visited))
                             \o NoResultSuffix

\* ------------------------------------------------------------------------
\* C24: a fan-out task calls exactly the subscribers connected when the
\* dispatcher runs it, whoever was connected at the publish: a subscriber
\* that came after the publish is called, and when all have unsubscribed
\* the task calls nobody and raises nothing.
\* ------------------------------------------------------------------------
C24_CallsThoseConnectedAtRun ==
  \A r \in DOMAIN ran :
     /\ Ids(ran[r].called) = ran[r].connected
     /\ Len(ran[r].called) = Cardinality(ran[r].connected)
     /\ ~ran[r].escaped
     /\ ran[r].connected = {} => (ran[r].called = <<>> /\ ran[r].dropped = 0)

\* one task called a subscriber that subscribed after its publish; another
\* task, whose subscribers had all unsubscribed, called nobody
C24_Witness ==
  /\ \E r \in DOMAIN ran :
        Ids(ran[r].called) \ published[ran[r].pub].connected # {}
  /\ \E r \in DOMAIN ran :
        /\ published[ran[r].pub].connected # {}
        /\ ran[r].called = <<>>
        /\ ~ran[r].escaped

\* ------------------------------------------------------------------------
\* C25: whenever a drain starts running a task, no queued task has a
\* strictly greater priority than that task, whatever adds the host and the
\* running tasks made before.
\* ------------------------------------------------------------------------
C25_StartsAMaximum ==
  pc = "exec" => \A h \in Range(handlers_) : h.priority_ <= cur.priority_

\* the drain starts a task that a task it ran earlier had added, while a
\* task of lower priority is queued
C25_Witness ==
  /\ pc = "exec"
  /\ cur \notin Range(atCall)
  /\ \E i \in DOMAIN log : log[i].function_.kind = "submit"
  /\ \E h \in Range(handlers_) : h.priority_ < cur.priority_

====
